---------------------------- MODULE Spec2Model ----------------------------
(***************************************************************************)
(* State-machine model of pg_timetable's scheduling core,                  *)
(* internal/scheduler/scheduler.go: Run (leader lock, poll cycles),        *)
(* retriveChainsAndRun (query and unbuffered hand-off to the workers),     *)
(* chainWorker (admission retry loop, self destruct), executeChain and     *)
(* executeChainElement (one transaction per chain run, status writes).     *)
(*                                                                         *)
(* The pgengine package (store access) and the task backends are not part  *)
(* of scheduler.go.  Their calls are modelled at the call sites: a call    *)
(* that can fail is a nondeterministic choice, and the store's live-run    *)
(* bookkeeping behind CanProceedChainExecution follows the written         *)
(* specification (a ChainRun exists from its header insert until a         *)
(* terminal status is recorded for it).                                    *)
(*                                                                         *)
(* The interval flavour (intervalChainWorker, retriveIntervalChainsAndRun) *)
(* lives outside scheduler.go and works on a disjoint set of               *)
(* configurations; its workers appear only in SpecPool, as users of the    *)
(* store's connections.                                                    *)
(***************************************************************************)
EXTENDS Integers, Sequences, FiniteSets, TLC

(* ---------------- program constants (scheduler.go:15-21) --------------- *)
workersNumber == 16
refetchTimeout == 60
maxChainsThreshold == workersNumber * refetchTimeout

(* ---------------- bounds of the model ---------------------------------- *)
\* width of the worker pool in the model (the program starts workersNumber)
NumWorkers == 2
\* number of cron poll cycles of Run's main loop that the model follows
MaxCycles == 2
\* the same for the specification that follows Run after the cancellation
\* signal: one more cycle, so that more entries are due than workers exist
MaxCyclesCancel == 3
\* longest chain of a configuration run at reboot (it is run once)
MaxElems == 2
\* longest chain of a cron configuration (it is run again in every cycle, and
\* several of its runs overlap)
MaxCronElems == 1
\* largest max_instances of a configuration
MaxInst == 2
\* largest fetched count followed by the burst-smoothing specification
MaxCount == 1000
\* longest chain followed by the connection-pool specification
PoolElems == 1

Workers == 1 .. NumWorkers
\* the configurations of timetable.chain_execution_config
ConfigIDs == {1}
\* exit codes a shell command can yield
ResultCodes == {0, 1}
TaskKinds == {"SQL", "SHELL", "BUILTIN"}

VARIABLES
    ctxDone,          \* ctx.Done() is closed: the cancellation signal fired
    runPc,            \* position of Run
    runResult,        \* what Run returned: "none" while it runs
    cycles,           \* cron poll cycles started so far
    headChains,       \* retriveChainsAndRun: entries of the cycle not pushed yet
    selectErr,        \* retriveChainsAndRun: the latest SelectContext failed
    config,           \* store: the rows of chain_execution_config
    chainElementsOf,  \* store: the ordered elements of each configuration's chain
    nextRunStatusID,  \* store: next id InsertChainRunStatus hands out
    pc,               \* per worker: position of chainWorker / executeChain
    chain,            \* per worker: the Chain received from the channel
    tx,               \* per worker: state of executeChain's transaction
    ChainElements,    \* per worker: executeChain's fetched elements
    idx,              \* per worker: position of the element being processed
    retCodes,         \* per worker: executeChain's retCode of each element so far
    tasks,            \* per worker: what executeChainElement met for each element so far
    runStatusID,      \* per worker: id of the run header, 0 before the insert
    statusLog,        \* store: status rows written for the worker's current run
    execLog,          \* store: rows LogChainElementExecution wrote for that run
    dispatched,       \* per worker: positions handed to a task backend in that run
    smooth,           \* burst smoothing: [n, i, slept] of one push loop
    pool              \* connection pool: who holds the connections of ConfigDb

runVars == <<ctxDone, runPc, runResult, cycles, headChains, selectErr>>
storeVars == <<config, chainElementsOf, nextRunStatusID>>
workerVars == <<pc, chain, tx, ChainElements, idx, retCodes, tasks, runStatusID,
                statusLog, execLog, dispatched>>
vars == <<runVars, storeVars, workerVars, smooth, pool>>

(* ---------------- data -------------------------------------------------- *)
NoChain == [ChainExecutionConfigID |-> 0, SelfDestruct |-> FALSE,
            ExclusiveExecution |-> FALSE, MaxInstances |-> 0]

\* type Chain struct (ChainID and ChainName are carried along, never tested)
Chain(c) ==
    [ChainExecutionConfigID |-> c,
     SelfDestruct |-> config[c].self_destruct,
     ExclusiveExecution |-> config[c].exclusive_execution,
     MaxInstances |-> config[c].max_instances]

\* pgengine.ChainElementExecution: the field executeChain tests
ChainElement == [IgnoreError : BOOLEAN]

ElementSeqs == UNION {[1 .. n -> ChainElement] : n \in 0 .. MaxElems}

ConfigRow == [exists : BOOLEAN, run_at : {"@reboot", "cron"},
              self_destruct : BOOLEAN, exclusive_execution : BOOLEAN,
              max_instances : 1 .. MaxInst]

RECURSIVE SeqOfSet(_)
\* the rows of a query result, in the order of their ids
SeqOfSet(S) ==
    IF S = {} THEN <<>>
    ELSE LET m == CHOOSE x \in S : \A y \in S : x <= y
         IN <<m>> \o SeqOfSet(S \ {m})


(* ---------------- the store's bookkeeping ------------------------------ *)
Terminal == {"CHAIN_DONE", "CHAIN_FAILED"}

Status(i, label) == [pos |-> i, status |-> label]

\* a terminal status row exists for the worker's current run
RunEnded(w) ==
    \E i \in DOMAIN statusLog[w] : statusLog[w][i].status \in Terminal

\* the runs of configuration c the store counts as live: header inserted,
\* no terminal status recorded
RunningJobs(c) ==
    {w \in Workers : /\ runStatusID[w] # 0
                     /\ chain[w].ChainExecutionConfigID = c
                     /\ ~RunEnded(w)}

\* pgengine.CanProceedChainExecution(ctx, chainConfigID, maxInstances)
CanProceedChainExecution(c, maxInstances) ==
    IF config[c].exclusive_execution
    THEN RunningJobs(c) = {}
    ELSE Cardinality(RunningJobs(c)) < maxInstances

\* rows the query of a cycle can select: run_at = '@reboot' for the reboot
\* query, a cron expression for the main loop's query
Eligible(sql) ==
    {c \in ConfigIDs : config[c].exists /\ config[c].run_at = sql}

\* the worker's context: a child of ctx, also cancelled by Run's deferred
\* cancel() when Run returns
chainCtxDone == ctxDone \/ runResult # "none"

(* ---------------- Init -------------------------------------------------- *)
NoSmooth == [n |-> 0, i |-> 0, slept |-> 0]

InitScheduler ==
    /\ ctxDone = FALSE
    /\ runPc = "lock"
    /\ runResult = "none"
    /\ cycles = 0
    /\ headChains = <<>>
    /\ selectErr = FALSE
    /\ config \in [ConfigIDs -> {r \in ConfigRow : r.exists}]
    /\ chainElementsOf \in [ConfigIDs -> ElementSeqs]
    /\ \A c \in ConfigIDs :
          config[c].run_at = "cron" => Len(chainElementsOf[c]) <= MaxCronElems
    /\ nextRunStatusID = 1
    /\ pc = [w \in Workers |-> "idle"]
    /\ chain = [w \in Workers |-> NoChain]
    /\ tx = [w \in Workers |-> "none"]
    /\ ChainElements = [w \in Workers |-> <<>>]
    /\ idx = [w \in Workers |-> 0]
    /\ retCodes = [w \in Workers |-> <<>>]
    /\ tasks = [w \in Workers |-> <<>>]
    /\ runStatusID = [w \in Workers |-> 0]
    /\ statusLog = [w \in Workers |-> <<>>]
    /\ execLog = [w \in Workers |-> <<>>]
    /\ dispatched = [w \in Workers |-> <<>>]

\* the connection pool while nobody uses a connection
NoPool ==
    [at |-> [u \in {} |-> "recv"], left |-> [u \in {} |-> 0], sys |-> FALSE]

Init == InitScheduler /\ smooth = NoSmooth /\ pool = NoPool

(* ---------------- Run (scheduler.go:65-107) ---------------------------- *)
\* the process-wide cancellation signal
Cancel ==
    /\ ~ctxDone
    /\ ctxDone' = TRUE
    /\ UNCHANGED <<runPc, runResult, cycles, headChains, selectErr, storeVars, workerVars, smooth, pool>>

\* mutant: the workers are started before the lock is probed
Run_TryLock_WorkersFirst ==
    /\ runPc = "lock"
    /\ \E ok \in BOOLEAN : runPc' = IF ok THEN "rebootQuery" ELSE "lockWait"
    /\ pc' = [w \in Workers |-> IF pc[w] = "idle" THEN "recv" ELSE pc[w]]
    /\ UNCHANGED <<ctxDone, selectErr, runResult, cycles, headChains, storeVars, chain, tx,
                   ChainElements, idx, retCodes, tasks, runStatusID, statusLog,
                   execLog, dispatched, smooth, pool>>

\* for !pgengine.TryLockClientName(ctx): on success the workers are started
Run_TryLock ==
    /\ runPc = "lock"
    /\ \E ok \in BOOLEAN :
          IF ok
          THEN /\ runPc' = "rebootQuery"
               /\ pc' = [w \in Workers |-> "recv"]
          ELSE /\ runPc' = "lockWait"
               /\ pc' = pc
    /\ UNCHANGED <<ctxDone, selectErr, runResult, cycles, headChains, storeVars, chain, tx,
                   ChainElements, idx, retCodes, tasks, runStatusID, statusLog,
                   execLog, dispatched, smooth, pool>>

\* case <-time.After(refetchTimeout * time.Second) of the lock loop
Run_LockTimer ==
    /\ runPc = "lockWait"
    /\ runPc' = "lock"
    /\ UNCHANGED <<ctxDone, selectErr, runResult, cycles, headChains, storeVars, workerVars, smooth, pool>>

\* case <-ctx.Done() of the lock loop
Run_LockCancelled ==
    /\ runPc = "lockWait"
    /\ ctxDone
    /\ runPc' = "returned"
    /\ runResult' = "ContextCancelled"
    /\ UNCHANGED <<ctxDone, selectErr, cycles, headChains, storeVars, workerVars, smooth, pool>>

\* where Run continues when retriveChainsAndRun returns
AfterCycle(p) == IF p \in {"rebootQuery", "rebootPush"} THEN "cronQuery" ELSE "wait"

QuerySql(p) == IF p = "rebootQuery" THEN "@reboot" ELSE "cron"

\* mutant: a failed query ends Run
Retrive_QueryFails_EndsRun ==
    /\ runPc \in {"rebootQuery", "cronQuery"}
    /\ runPc' = "returned"
    /\ runResult' = "ConnectionDroppped"
    /\ selectErr' = TRUE
    /\ UNCHANGED <<ctxDone, cycles, headChains, storeVars, workerVars, smooth, pool>>

\* retriveChainsAndRun: SelectContext fails (lines 111-115); a cancelled
\* context makes it fail
Retrive_QueryFails ==
    /\ runPc \in {"rebootQuery", "cronQuery"}
    /\ runPc' = AfterCycle(runPc)
    /\ cycles' = IF runPc = "rebootQuery" THEN cycles + 1 ELSE cycles
    /\ selectErr' = TRUE
    /\ UNCHANGED <<ctxDone, runResult, headChains, storeVars, workerVars, smooth, pool>>

\* retriveChainsAndRun: SelectContext returns the rows that are due now
Retrive_Query ==
    /\ runPc \in {"rebootQuery", "cronQuery"}
    /\ ~ctxDone
    /\ \E due \in SUBSET Eligible(QuerySql(runPc)) :
          LET rows == SeqOfSet(due)
          IN /\ headChains' = [i \in DOMAIN rows |-> Chain(rows[i])]
             /\ IF due = {}
                THEN /\ runPc' = AfterCycle(runPc)
                     /\ cycles' = IF runPc = "rebootQuery" THEN cycles + 1 ELSE cycles
                ELSE /\ runPc' = IF runPc = "rebootQuery" THEN "rebootPush" ELSE "cronPush"
                     /\ cycles' = cycles
    /\ selectErr' = FALSE
    /\ UNCHANGED <<ctxDone, runResult, storeVars, workerVars, smooth, pool>>

\* chains <- headChain on the unbuffered channel, taken by worker w's
\* for chain := range chains
Retrive_Push(w) ==
    /\ runPc \in {"rebootPush", "cronPush"}
    /\ headChains # <<>>
    /\ pc[w] = "recv"
    /\ chain' = [chain EXCEPT ![w] = Head(headChains)]
    /\ pc' = [pc EXCEPT ![w] = "gate"]
    /\ headChains' = Tail(headChains)
    /\ IF Tail(headChains) = <<>>
       THEN /\ runPc' = AfterCycle(runPc)
            /\ cycles' = IF runPc = "rebootPush" THEN cycles + 1 ELSE cycles
       ELSE /\ runPc' = runPc
            /\ cycles' = cycles
    /\ UNCHANGED <<ctxDone, selectErr, runResult, storeVars, tx, ChainElements, idx, retCodes,
                   tasks, runStatusID, statusLog, execLog, dispatched, smooth, pool>>

\* case <-time.After(refetchTimeout * time.Second) with IsAlive() true:
\* the next cycle of the main loop
Run_WaitAlive(last) ==
    /\ runPc = "wait"
    /\ cycles < last
    /\ runPc' = "cronQuery"
    /\ cycles' = cycles + 1
    /\ UNCHANGED <<ctxDone, selectErr, runResult, headChains, storeVars, workerVars, smooth, pool>>

\* mutant: the failed probe returns the other outcome
Run_WaitDropped_WrongOutcome ==
    /\ runPc = "wait"
    /\ runPc' = "returned"
    /\ runResult' = "ContextCancelled"
    /\ UNCHANGED <<ctxDone, selectErr, cycles, headChains, storeVars, workerVars, smooth, pool>>

\* case <-time.After(...) with IsAlive() false
Run_WaitDropped ==
    /\ runPc = "wait"
    /\ runPc' = "returned"
    /\ runResult' = "ConnectionDroppped"
    /\ UNCHANGED <<ctxDone, selectErr, cycles, headChains, storeVars, workerVars, smooth, pool>>

\* case <-ctx.Done() of the main loop
Run_WaitCancelled ==
    /\ runPc = "wait"
    /\ ctxDone
    /\ runPc' = "returned"
    /\ runResult' = "ContextCancelled"
    /\ UNCHANGED <<ctxDone, selectErr, cycles, headChains, storeVars, workerVars, smooth, pool>>


(* ---------------- chainWorker (scheduler.go:128-145) ------------------- *)
\* what pgengine.CanProceedChainExecution(ctx, ...) can answer worker w: the
\* gate's verdict, and either answer once ctx is cancelled (the store call
\* fails on a cancelled context, and what the gate answers then is decided
\* outside scheduler.go)
GateAnswers(w) ==
    IF chainCtxDone
    THEN BOOLEAN
    ELSE {CanProceedChainExecution(chain[w].ChainExecutionConfigID,
                                   chain[w].MaxInstances)}

\* for !pgengine.CanProceedChainExecution(...): one evaluation of the gate;
\* on admission executeChain is called
Worker_Gate(w) ==
    /\ pc[w] = "gate"
    /\ \E ok \in GateAnswers(w) :
          pc' = [pc EXCEPT ![w] = IF ok THEN "startTx" ELSE "gateWait"]
    /\ UNCHANGED <<runVars, storeVars, chain, tx, ChainElements, idx, retCodes,
                   tasks, runStatusID, statusLog, execLog, dispatched, smooth, pool>>

\* mutant: after the sleep the chain is executed without asking the gate again
Worker_GateTimer_NoRecheck(w) ==
    /\ pc[w] = "gateWait"
    /\ pc' = [pc EXCEPT ![w] = "startTx"]
    /\ UNCHANGED <<runVars, storeVars, chain, tx, ChainElements, idx, retCodes,
                   tasks, runStatusID, statusLog, execLog, dispatched, smooth, pool>>

\* case <-time.After(time.Duration(pgengine.WaitTime) * time.Second)
Worker_GateTimer(w) ==
    /\ pc[w] = "gateWait"
    /\ pc' = [pc EXCEPT ![w] = "gate"]
    /\ UNCHANGED <<runVars, storeVars, chain, tx, ChainElements, idx, retCodes,
                   tasks, runStatusID, statusLog, execLog, dispatched, smooth, pool>>

\* case <-ctx.Done(): the worker returns, holding the entry it received
Worker_GateCancelled(w) ==
    /\ pc[w] = "gateWait"
    /\ chainCtxDone
    /\ pc' = [pc EXCEPT ![w] = "exited"]
    /\ UNCHANGED <<runVars, storeVars, chain, tx, ChainElements, idx, retCodes,
                   tasks, runStatusID, statusLog, execLog, dispatched, smooth, pool>>

(* ---------------- executeChain (scheduler.go:148-185) ------------------ *)
\* tx, err := pgengine.StartTransaction(ctx)
Exec_StartTransaction(w) ==
    /\ pc[w] = "startTx"
    /\ tx' = [tx EXCEPT ![w] = "open"]
    /\ pc' = [pc EXCEPT ![w] = "fetch"]
    /\ UNCHANGED <<runVars, storeVars, chain, ChainElements, idx, retCodes,
                   tasks, runStatusID, statusLog, execLog, dispatched, smooth, pool>>

\* err != nil: log and return
Exec_StartTransactionFails(w) ==
    /\ pc[w] = "startTx"
    /\ pc' = [pc EXCEPT ![w] = "afterExec"]
    /\ UNCHANGED <<runVars, storeVars, chain, tx, ChainElements, idx, retCodes,
                   tasks, runStatusID, statusLog, execLog, dispatched, smooth, pool>>

\* pgengine.GetChainElements(tx, &ChainElements, chainID) succeeds
Exec_GetChainElements(w) ==
    /\ pc[w] = "fetch"
    /\ ChainElements' = [ChainElements EXCEPT
                            ![w] = chainElementsOf[chain[w].ChainExecutionConfigID]]
    /\ pc' = [pc EXCEPT ![w] = "insert"]
    /\ UNCHANGED <<runVars, storeVars, chain, tx, idx, retCodes,
                   tasks, runStatusID, statusLog, execLog, dispatched, smooth, pool>>

\* mutant: the return after the rollback is missing
Exec_GetChainElementsFails_NoReturn(w) ==
    /\ pc[w] = "fetch"
    /\ tx' = [tx EXCEPT ![w] = "rolledback"]
    /\ pc' = [pc EXCEPT ![w] = "insert"]
    /\ UNCHANGED <<runVars, storeVars, chain, ChainElements, idx, retCodes,
                   tasks, runStatusID, statusLog, execLog, dispatched, smooth, pool>>

\* GetChainElements fails: MustRollbackTransaction(tx); return
Exec_GetChainElementsFails(w) ==
    /\ pc[w] = "fetch"
    /\ tx' = [tx EXCEPT ![w] = "rolledback"]
    /\ pc' = [pc EXCEPT ![w] = "afterExec"]
    /\ UNCHANGED <<runVars, storeVars, chain, ChainElements, idx, retCodes,
                   tasks, runStatusID, statusLog, execLog, dispatched, smooth, pool>>

\* runStatusID := pgengine.InsertChainRunStatus(ctx, chainConfigID, chainID),
\* then the loop over ChainElements is entered (or skipped when it is empty)
Exec_InsertChainRunStatus(w) ==
    /\ pc[w] = "insert"
    /\ runStatusID' = [runStatusID EXCEPT ![w] = nextRunStatusID]
    /\ nextRunStatusID' = nextRunStatusID + 1
    /\ IF ChainElements[w] = <<>>
       THEN /\ pc' = [pc EXCEPT ![w] = "final"]
            /\ idx' = idx
       ELSE /\ pc' = [pc EXCEPT ![w] = "started"]
            /\ idx' = [idx EXCEPT ![w] = 1]
    /\ UNCHANGED <<runVars, config, chainElementsOf, chain, tx, ChainElements, retCodes,
                   tasks, statusLog, execLog, dispatched, smooth, pool>>

\* mutant: the element loop observes the cancellation and returns
Exec_Started_ObservesCancel(w) ==
    /\ pc[w] = "started"
    /\ IF chainCtxDone
       THEN /\ pc' = [pc EXCEPT ![w] = "exited"]
            /\ statusLog' = statusLog
       ELSE /\ pc' = [pc EXCEPT ![w] = "elem"]
            /\ statusLog' = [statusLog EXCEPT ![w] = Append(@, Status(idx[w], "STARTED"))]
    /\ UNCHANGED <<runVars, storeVars, chain, tx, ChainElements, idx, retCodes,
                   tasks, runStatusID, execLog, dispatched, smooth, pool>>

\* pgengine.UpdateChainRunStatus(ctx, &chainElemExec, runStatusID, "STARTED")
Exec_Started(w) ==
    /\ pc[w] = "started"
    /\ statusLog' = [statusLog EXCEPT ![w] = Append(@, Status(idx[w], "STARTED"))]
    /\ pc' = [pc EXCEPT ![w] = "elem"]
    /\ UNCHANGED <<runVars, storeVars, chain, tx, ChainElements, idx, retCodes,
                   tasks, runStatusID, execLog, dispatched, smooth, pool>>

(* ---------------- executeChainElement (scheduler.go:187-227) ----------- *)
\* what one call can meet: the outcome of GetChainParamValues, the element's
\* Kind, the value of pgengine.NoShellTasks read for a SHELL element, and
\* what the task backend yields.  ExecuteSQLTask and tasks.ExecuteTask yield
\* an error only: retCode keeps its zero value.  The flag is set before Run
\* starts; letting each read meet either value covers both settings.
TaskOutcomes ==
    {t \in [kind : TaskKinds, paramOk : BOOLEAN, noShell : BOOLEAN,
            resultCode : ResultCodes, err : BOOLEAN] :
        /\ (t.kind # "SHELL" => t.resultCode = 0 /\ ~t.noShell)
        /\ (~t.paramOk => t.resultCode = 0 /\ ~t.err /\ ~t.noShell)
        /\ (t.noShell => t.resultCode = 0 /\ ~t.err)}

\* what the run keeps of one call: the Kind is used by the switch only
Met(t) == [paramOk |-> t.paramOk, noShell |-> t.noShell,
           resultCode |-> t.resultCode, err |-> t.err]

\* the element reaches its task backend (lines 195-197 and 204-207 return first)
Dispatches(t) == t.paramOk /\ ~(t.kind = "SHELL" /\ t.noShell)

\* mutant: a failed parameter resolution is not returned as a failure
executeChainElement_ParamFailureDropped(t) ==
    IF ~t.paramOk THEN 0
    ELSE IF t.kind = "SHELL" /\ t.noShell THEN -1
    ELSE IF t.err THEN (IF t.resultCode # 0 THEN t.resultCode ELSE -1)
    ELSE 0

\* mutant: the test of err is inverted
executeChainElement_ErrInverted(t) ==
    IF ~t.paramOk THEN -1
    ELSE IF t.kind = "SHELL" /\ t.noShell THEN -1
    ELSE IF ~t.err THEN (IF t.resultCode # 0 THEN t.resultCode ELSE -1)
    ELSE 0

\* the value executeChainElement returns
executeChainElement(t) ==
    IF ~t.paramOk THEN -1
    ELSE IF t.kind = "SHELL" /\ t.noShell THEN -1
    ELSE IF t.err THEN (IF t.resultCode # 0 THEN t.resultCode ELSE -1)
    ELSE 0

\* retCode := executeChainElement(ctx, tx, &chainElemExec): parameter
\* resolution, dispatch by kind, LogChainElementExecution(retCode, out)
Exec_Element(w) ==
    /\ pc[w] = "elem"
    /\ \E t \in TaskOutcomes :
          /\ tasks' = [tasks EXCEPT ![w] = Append(@, Met(t))]
          /\ retCodes' = [retCodes EXCEPT ![w] = Append(@, executeChainElement(t))]
          /\ IF Dispatches(t)
             THEN /\ dispatched' = [dispatched EXCEPT ![w] = Append(@, idx[w])]
                  /\ execLog' = [execLog EXCEPT ![w] =
                                    Append(@, [pos |-> idx[w], code |-> t.resultCode])]
             ELSE UNCHANGED <<dispatched, execLog>>
    /\ pc' = [pc EXCEPT ![w] = "decide"]
    /\ UNCHANGED <<runVars, storeVars, chain, tx, ChainElements, idx,
                   runStatusID, statusLog, smooth, pool>>

\* mutant: only a positive retCode fails the chain
ChainFails_PositiveOnly(code, elem) == code > 0 /\ ~elem.IgnoreError

\* mutant: the ignoreError flag is not consulted
ChainFails_FlagDropped(code, elem) == code # 0

\* if retCode != 0 && !chainElemExec.IgnoreError (lines 171-176)
ChainFails(code, elem) == code # 0 /\ ~elem.IgnoreError

\* the status written after an element that does not fail the chain (line 177)
ElementDoneStatus == "CHAIN_DONE"

\* lines 171-177: on failure write CHAIN_FAILED and go on to the rollback,
\* otherwise write the element's status and take the next element
Exec_Decide(w) ==
    /\ pc[w] = "decide"
    /\ IF ChainFails(retCodes[w][idx[w]], ChainElements[w][idx[w]])
       THEN /\ statusLog' = [statusLog EXCEPT ![w] = Append(@, Status(idx[w], "CHAIN_FAILED"))]
            /\ pc' = [pc EXCEPT ![w] = "rollback"]
            /\ idx' = idx
       ELSE /\ statusLog' = [statusLog EXCEPT ![w] = Append(@, Status(idx[w], ElementDoneStatus))]
            /\ IF idx[w] < Len(ChainElements[w])
               THEN /\ pc' = [pc EXCEPT ![w] = "started"]
                    /\ idx' = [idx EXCEPT ![w] = @ + 1]
               ELSE /\ pc' = [pc EXCEPT ![w] = "final"]
                    /\ idx' = idx
    /\ UNCHANGED <<runVars, storeVars, chain, tx, ChainElements, retCodes, tasks,
                   runStatusID, execLog, dispatched, smooth, pool>>

\* mutant: the failure path returns without the rollback
Exec_Rollback_Missing(w) ==
    /\ pc[w] = "rollback"
    /\ pc' = [pc EXCEPT ![w] = "afterExec"]
    /\ UNCHANGED <<runVars, storeVars, chain, tx, ChainElements, idx, retCodes,
                   tasks, runStatusID, statusLog, execLog, dispatched, smooth, pool>>

\* pgengine.MustRollbackTransaction(tx); return (lines 174-175)
Exec_Rollback(w) ==
    /\ pc[w] = "rollback"
    /\ tx' = [tx EXCEPT ![w] = "rolledback"]
    /\ pc' = [pc EXCEPT ![w] = "afterExec"]
    /\ UNCHANGED <<runVars, storeVars, chain, ChainElements, idx, retCodes,
                   tasks, runStatusID, statusLog, execLog, dispatched, smooth, pool>>

\* the chain-level UpdateChainRunStatus(..., "CHAIN_DONE") (lines 180-183)
Exec_ChainDone(w) ==
    /\ pc[w] = "final"
    /\ statusLog' = [statusLog EXCEPT ![w] = Append(@, Status(0, "CHAIN_DONE"))]
    /\ pc' = [pc EXCEPT ![w] = "commit"]
    /\ UNCHANGED <<runVars, storeVars, chain, tx, ChainElements, idx, retCodes,
                   tasks, runStatusID, execLog, dispatched, smooth, pool>>

\* pgengine.MustCommitTransaction(tx) (line 184)
Exec_Commit(w) ==
    /\ pc[w] = "commit"
    /\ tx' = [tx EXCEPT ![w] = "committed"]
    /\ pc' = [pc EXCEPT ![w] = "afterExec"]
    /\ UNCHANGED <<runVars, storeVars, chain, ChainElements, idx, retCodes,
                   tasks, runStatusID, statusLog, execLog, dispatched, smooth, pool>>

\* chainWorker's condition for DeleteChainConfig (line 141)
DeletesConfig(w) == chain[w].SelfDestruct

\* executeChain has returned: lines 141-143, then back to the channel.  The
\* worker's locals of the finished run go out of scope.
Worker_AfterExec(w) ==
    /\ pc[w] = "afterExec"
    /\ config' = IF DeletesConfig(w)
                 THEN [config EXCEPT ![chain[w].ChainExecutionConfigID].exists = FALSE]
                 ELSE config
    /\ pc' = [pc EXCEPT ![w] = "recv"]
    /\ chain' = [chain EXCEPT ![w] = NoChain]
    /\ tx' = [tx EXCEPT ![w] = "none"]
    /\ ChainElements' = [ChainElements EXCEPT ![w] = <<>>]
    /\ idx' = [idx EXCEPT ![w] = 0]
    /\ retCodes' = [retCodes EXCEPT ![w] = <<>>]
    /\ tasks' = [tasks EXCEPT ![w] = <<>>]
    /\ runStatusID' = [runStatusID EXCEPT ![w] = 0]
    /\ statusLog' = [statusLog EXCEPT ![w] = <<>>]
    /\ execLog' = [execLog EXCEPT ![w] = <<>>]
    /\ dispatched' = [dispatched EXCEPT ![w] = <<>>]
    /\ UNCHANGED <<runVars, chainElementsOf, nextRunStatusID, smooth, pool>>

(* ---------------- burst smoothing (scheduler.go:116-125) --------------- *)
\* Time is not part of Spec: the sleep that precedes a push of a large cycle
\* is followed on its own, for a fetched count n, by SpecSmooth.

\* mutant: the factor 1000 is forgotten
perEntryDelay_Seconds(n) == refetchTimeout \div n

\* refetchTimeout*1000/headChainsCount, in milliseconds (line 121)
perEntryDelay(n) == (refetchTimeout * 1000) \div n

\* fetched counts SpecSmooth follows: around the threshold and above it
Counts == (maxChainsThreshold - 1) .. MaxCount

\* one iteration of the loop of lines 119-125: the sleep, when the count
\* exceeds maxChainsThreshold, and the push
Smooth_Push ==
    /\ smooth.i < smooth.n
    /\ smooth' = [smooth EXCEPT
                     !.i = @ + 1,
                     !.slept = IF smooth.n > maxChainsThreshold
                               THEN @ + perEntryDelay(smooth.n) ELSE @]
    /\ UNCHANGED <<runVars, storeVars, workerVars, pool>>

\* headChainsCount := len(headChains) for a query that returned n rows
InitSmooth ==
    /\ InitScheduler
    /\ \A c \in ConfigIDs :
          /\ config[c] = [exists |-> TRUE, run_at |-> "cron", self_destruct |-> FALSE,
                          exclusive_execution |-> FALSE, max_instances |-> 1]
          /\ chainElementsOf[c] = <<>>
    /\ smooth \in {[n |-> n, i |-> 0, slept |-> 0] : n \in Counts}
    /\ pool = NoPool

SpecSmooth == InitSmooth /\ [][Smooth_Push]_vars

(* ---------------- the connections of ConfigDb (scheduler.go:75-85) ------ *)
\* Connections are not part of Spec: who holds the connections of the pool
\* is followed on its own by SpecPool, for the two pools of workers Run
\* starts and the limit Run sets.  A transaction keeps one connection from
\* StartTransaction to its commit or rollback; a store call that is not given
\* the tx (InsertChainRunStatus, UpdateChainRunStatus) takes a further
\* connection for its duration and waits while none is free.

\* the workers of the second pool (go intervalChainWorker, line 82): they
\* run the chain executor as the chain workers do
IntervalWorkers == (NumWorkers + 1) .. (2 * NumWorkers)

\* the workers of both pools (lines 76-83)
PoolWorkers == Workers \cup IntervalWorkers

\* pgengine.ConfigDb.SetMaxOpenConns(workersNumber + 1), for the model's width
MaxOpenConns == NumWorkers + 1

HoldsTx(u) == pool.at[u] \in {"fetch", "want", "write", "end"}

HoldsConn(u) == pool.at[u] = "write"

\* connections of the pool that nobody holds
Free ==
    MaxOpenConns - Cardinality({u \in PoolWorkers : HoldsTx(u)})
                 - Cardinality({u \in PoolWorkers : HoldsConn(u)})
                 - (IF pool.sys THEN 1 ELSE 0)

\* the worker receives an entry and is admitted
Pool_Receive(u) ==
    /\ pool.at[u] = "recv"
    /\ pool' = [pool EXCEPT !.at[u] = "startTx"]
    /\ UNCHANGED <<runVars, storeVars, workerVars, smooth>>

\* tx, err := pgengine.StartTransaction(ctx): takes a connection and keeps it
Pool_StartTransaction(u) ==
    /\ pool.at[u] = "startTx"
    /\ Free > 0
    /\ pool' = [pool EXCEPT !.at[u] = "fetch"]
    /\ UNCHANGED <<runVars, storeVars, workerVars, smooth>>

\* StartTransaction fails: executeChain returns
Pool_StartTransactionFails(u) ==
    /\ pool.at[u] = "startTx"
    /\ pool' = [pool EXCEPT !.at[u] = "recv"]
    /\ UNCHANGED <<runVars, storeVars, workerVars, smooth>>

\* GetChainElements(tx, ...) runs on the transaction's connection.  A chain
\* of n elements that all complete is followed by 2 + 2n store calls outside
\* the transaction: the header insert, STARTED and the element's status for
\* each element, and the chain's CHAIN_DONE.
Pool_GetChainElements(u) ==
    /\ pool.at[u] = "fetch"
    /\ \E n \in 0 .. PoolElems :
          pool' = [pool EXCEPT !.at[u] = "want", !.left[u] = 2 + 2 * n]
    /\ UNCHANGED <<runVars, storeVars, workerVars, smooth>>

\* GetChainElements fails: the rollback gives the connection back
Pool_GetChainElementsFails(u) ==
    /\ pool.at[u] = "fetch"
    /\ pool' = [pool EXCEPT !.at[u] = "recv"]
    /\ UNCHANGED <<runVars, storeVars, workerVars, smooth>>

\* InsertChainRunStatus(ctx, ...) or UpdateChainRunStatus(ctx, ...) obtains
\* its connection
Pool_StoreCall(u) ==
    /\ pool.at[u] = "want"
    /\ Free > 0
    /\ pool' = [pool EXCEPT !.at[u] = "write"]
    /\ UNCHANGED <<runVars, storeVars, workerVars, smooth>>

\* the store call returns and its connection goes back to the pool
Pool_StoreCallReturns(u) ==
    /\ pool.at[u] = "write"
    /\ pool' = [pool EXCEPT !.left[u] = @ - 1,
                            !.at[u] = IF pool.left[u] = 1 THEN "end" ELSE "want"]
    /\ UNCHANGED <<runVars, storeVars, workerVars, smooth>>

\* MustCommitTransaction(tx) / MustRollbackTransaction(tx)
Pool_EndTransaction(u) ==
    /\ pool.at[u] = "end"
    /\ pool' = [pool EXCEPT !.at[u] = "recv"]
    /\ UNCHANGED <<runVars, storeVars, workerVars, smooth>>

\* a store call of Run (the cycle's query, IsAlive) takes a connection
Pool_SystemCall ==
    /\ ~pool.sys
    /\ Free > 0
    /\ pool' = [pool EXCEPT !.sys = TRUE]
    /\ UNCHANGED <<runVars, storeVars, workerVars, smooth>>

Pool_SystemCallReturns ==
    /\ pool.sys
    /\ pool' = [pool EXCEPT !.sys = FALSE]
    /\ UNCHANGED <<runVars, storeVars, workerVars, smooth>>

\* Run has started both pools and set the limit; every worker is at its channel
InitPool ==
    /\ InitScheduler
    /\ \A c \in ConfigIDs :
          /\ config[c] = [exists |-> TRUE, run_at |-> "cron", self_destruct |-> FALSE,
                          exclusive_execution |-> FALSE, max_instances |-> 1]
          /\ chainElementsOf[c] = <<>>
    /\ smooth = NoSmooth
    /\ pool = [at |-> [u \in PoolWorkers |-> "recv"],
               left |-> [u \in PoolWorkers |-> 0],
               sys |-> FALSE]

PoolStep(u) ==
    \/ Pool_Receive(u)
    \/ Pool_StartTransaction(u)
    \/ Pool_StartTransactionFails(u)
    \/ Pool_GetChainElements(u)
    \/ Pool_GetChainElementsFails(u)
    \/ Pool_StoreCall(u)
    \/ Pool_StoreCallReturns(u)
    \/ Pool_EndTransaction(u)

NextPool ==
    \/ Pool_SystemCall
    \/ Pool_SystemCallReturns
    \/ \E u \in PoolWorkers : PoolStep(u)

SpecPool == InitPool /\ [][NextPool]_vars

(* ---------------- the specification ------------------------------------ *)
RunStep(last) ==
    \/ Run_TryLock
    \/ Run_LockTimer
    \/ Run_LockCancelled
    \/ Retrive_QueryFails
    \/ Retrive_Query
    \/ Run_WaitAlive(last)
    \/ Run_WaitDropped
    \/ Run_WaitCancelled

WorkerStep(w) ==
    \/ Retrive_Push(w)
    \/ Worker_Gate(w)
    \/ Worker_GateTimer(w)
    \/ Worker_GateCancelled(w)
    \/ Exec_StartTransaction(w)
    \/ Exec_StartTransactionFails(w)
    \/ Exec_GetChainElements(w)
    \/ Exec_GetChainElementsFails(w)
    \/ Exec_InsertChainRunStatus(w)
    \/ Exec_Started(w)
    \/ Exec_Element(w)
    \/ Exec_Decide(w)
    \/ Exec_Rollback(w)
    \/ Exec_ChainDone(w)
    \/ Exec_Commit(w)
    \/ Worker_AfterExec(w)

\* the steps of the program while Run follows at most `last` poll cycles
NextWithin(last) == Cancel \/ RunStep(last) \/ \E w \in Workers : WorkerStep(w)

Next == NextWithin(MaxCycles)

Spec == Init /\ [][Next]_vars

\* a worker that holds an entry goes on: its store calls return, its timer
\* fires.  Taking the next entry depends on the poller, and the ctx.Done()
\* branch of the select need not be the one taken.
WorkerProgress(w) ==
    \/ Worker_Gate(w)
    \/ Worker_GateTimer(w)
    \/ Exec_StartTransaction(w)
    \/ Exec_StartTransactionFails(w)
    \/ Exec_GetChainElements(w)
    \/ Exec_GetChainElementsFails(w)
    \/ Exec_InsertChainRunStatus(w)
    \/ Exec_Started(w)
    \/ Exec_Element(w)
    \/ Exec_Decide(w)
    \/ Exec_Rollback(w)
    \/ Exec_ChainDone(w)
    \/ Exec_Commit(w)
    \/ Worker_AfterExec(w)

FairSpec == Spec /\ \A w \in Workers : WF_vars(WorkerProgress(w))

\* Run goes on as well: its store calls return, its timers fire, a push is
\* taken when a worker is receiving, and a select that finds ctx.Done()
\* closed when it is entered takes that branch (its timer is new).
FairRunSpec ==
    /\ Init /\ [][NextWithin(MaxCyclesCancel)]_vars
    /\ \A w \in Workers : WF_vars(WorkerProgress(w))
    /\ WF_vars(RunStep(MaxCyclesCancel) \/ \E w \in Workers : Retrive_Push(w))
    /\ SF_vars(Run_LockCancelled)
    /\ SF_vars(Run_WaitCancelled)


(* ======================= the claims ==================================== *)
\* a ChainRun in progress: header inserted, transaction neither committed
\* nor rolled back
InProgress(c) ==
    {w \in Workers : /\ runStatusID[w] # 0
                     /\ tx[w] = "open"
                     /\ chain[w].ChainExecutionConfigID = c}

\* C1: under every interleaving of the workers, the number of ChainRuns of
\* one configuration in progress at the same time never exceeds that
\* configuration's maxInstances.
C1_AtMostMaxInstances ==
    \A c \in ConfigIDs : Cardinality(InProgress(c)) <= config[c].max_instances

\* C2: a configuration with exclusiveExecution set never has two ChainRuns
\* in progress at once, whatever its maxInstances is.
C2_ExclusiveNeverTwo ==
    \A c \in ConfigIDs :
        config[c].exclusive_execution => Cardinality(InProgress(c)) <= 1


(* ---------------- one run of executeChain ------------------------------ *)
Positions(log) == {log[i].pos : i \in DOMAIN log}

\* element k of the worker's run returned a non-zero retCode to executeChain
\* and its ignoreError is false
UnignoredFailure(w, k) ==
    /\ k \in DOMAIN retCodes[w]
    /\ retCodes[w][k] # 0
    /\ ~ChainElements[w][k].IgnoreError

\* C3: if element k yields a non-zero result code and its ignoreError is
\* false, the run's final status is CHAIN_FAILED, the transaction is rolled
\* back and never committed, and no element after k is marked STARTED,
\* dispatched to a task backend or given an ElementExecution record.
C3_FailFast ==
    \A w \in Workers : \A k \in 1 .. MaxElems :
        UnignoredFailure(w, k) =>
            /\ Len(retCodes[w]) = k
            /\ pc[w] \in {"decide", "rollback", "afterExec"}
            /\ tx[w] # "committed"
            /\ \A p \in Positions(statusLog[w]) : 1 <= p /\ p <= k
            /\ \A p \in Positions(execLog[w]) : p <= k
            /\ \A i \in DOMAIN dispatched[w] : dispatched[w][i] <= k
            /\ (pc[w] # "decide" =>
                    statusLog[w][Len(statusLog[w])] = Status(k, "CHAIN_FAILED"))
            /\ (pc[w] = "afterExec" => tx[w] = "rolledback")

\* C3's case: executeChain has returned after element k < n failed the chain
C3_Witness ==
    \E w \in Workers : \E k \in 1 .. MaxElems :
        /\ UnignoredFailure(w, k)
        /\ k < Len(ChainElements[w])
        /\ pc[w] = "afterExec"

\* the task backend was reached and yielded result code 0 without an error
ReturnedZero(t) == t.paramOk /\ ~t.noShell /\ t.resultCode = 0 /\ ~t.err

AllReturnedZero(w) == \A i \in DOMAIN tasks[w] : ReturnedZero(tasks[w][i])

\* C4: for a chain whose elements all return code 0, every element is
\* dispatched exactly once in position order (element i+1 is marked STARTED
\* only after the outcome of element i is recorded), exactly n
\* ElementExecution records with code 0 are written in that order, the run
\* ends CHAIN_DONE and the transaction is committed.
C4_AllZeroChainDone ==
    \A w \in Workers :
        (runStatusID[w] # 0 /\ AllReturnedZero(w)) =>
            /\ dispatched[w] = [i \in 1 .. Len(tasks[w]) |-> i]
            /\ execLog[w] = [i \in 1 .. Len(tasks[w]) |-> [pos |-> i, code |-> 0]]
            /\ \A i \in DOMAIN statusLog[w] :
                  statusLog[w][i].status = "STARTED" =>
                      /\ Len(execLog[w]) >= statusLog[w][i].pos - 1
                      /\ \A j \in 1 .. i - 1 : statusLog[w][j].pos <= statusLog[w][i].pos
                      /\ \A j \in 1 .. i - 1 :
                            statusLog[w][j].status = "STARTED" =>
                                statusLog[w][j].pos < statusLog[w][i].pos
            /\ \A i \in DOMAIN statusLog[w] : statusLog[w][i].status # "CHAIN_FAILED"
            /\ tx[w] # "rolledback"
            /\ pc[w] # "rollback"
            /\ (pc[w] = "afterExec" =>
                    /\ Len(tasks[w]) = Len(ChainElements[w])
                    /\ statusLog[w][Len(statusLog[w])].status = "CHAIN_DONE"
                    /\ tx[w] = "committed")

\* C4's case: a chain of two elements that both returned code 0 has finished
C4_Witness ==
    \E w \in Workers :
        /\ pc[w] = "afterExec"
        /\ runStatusID[w] # 0
        /\ Len(ChainElements[w]) = 2
        /\ Len(tasks[w]) = 2
        /\ AllReturnedZero(w)

\* no element of the run so far failed without ignoreError
NoUnignoredFailure(w) == \A k \in 1 .. MaxElems : ~UnignoredFailure(w, k)

\* some element of the run yielded a non-zero retCode with ignoreError set
IgnoredFailure(w, k) ==
    /\ k \in DOMAIN retCodes[w]
    /\ retCodes[w][k] # 0
    /\ ChainElements[w][k].IgnoreError

\* C5: an element that yields a non-zero result code with ignoreError=true
\* does not stop the chain: the following elements are still executed in
\* order, and if none of them fails without ignoreError the run ends
\* CHAIN_DONE and the transaction is committed, never CHAIN_FAILED or rolled
\* back.
C5_IgnoredFailureContinues ==
    \A w \in Workers : \A k \in 1 .. MaxElems :
        (IgnoredFailure(w, k) /\ NoUnignoredFailure(w)) =>
            /\ \A i \in DOMAIN statusLog[w] : statusLog[w][i].status # "CHAIN_FAILED"
            /\ tx[w] # "rolledback"
            /\ pc[w] \notin {"rollback", "exited", "recv"}
            /\ (pc[w] \in {"final", "commit", "afterExec"} =>
                    /\ Len(retCodes[w]) = Len(ChainElements[w])
                    /\ \A p \in 1 .. Len(ChainElements[w]) :
                          \E i \in DOMAIN statusLog[w] :
                              statusLog[w][i] = Status(p, "STARTED"))
            /\ \A i, j \in DOMAIN statusLog[w] :
                  (i < j /\ statusLog[w][i].status = "STARTED"
                         /\ statusLog[w][j].status = "STARTED") =>
                      statusLog[w][i].pos < statusLog[w][j].pos
            /\ (pc[w] = "afterExec" =>
                    /\ statusLog[w][Len(statusLog[w])].status = "CHAIN_DONE"
                    /\ tx[w] = "committed")

\* C5's case: element 1 of two failed and was ignored, element 2 was executed
\* and the run has finished
C5_Witness ==
    \E w \in Workers :
        /\ pc[w] = "afterExec"
        /\ IgnoredFailure(w, 1)
        /\ Len(retCodes[w]) = 2
        /\ NoUnignoredFailure(w)


(* ---------------- terminal statuses ------------------------------------ *)
\* C10: CHAIN_DONE and CHAIN_FAILED are terminal: such a status is written
\* for a run at most once, only after the last element the run executes, and
\* no status is written for the same runStatusID after it; in particular no
\* run has CHAIN_DONE recorded and CHAIN_FAILED recorded later.
C10_TerminalStatusIsLast ==
    \A w \in Workers : \A i \in DOMAIN statusLog[w] :
        statusLog[w][i].status \in Terminal => i = Len(statusLog[w])

(* ---------------- self destruct ---------------------------------------- *)
\* the run the worker just executed ended CHAIN_DONE and was committed
Successful(w) ==
    /\ runStatusID[w] # 0
    /\ tx[w] = "committed"
    /\ statusLog[w] # <<>>
    /\ statusLog[w][Len(statusLog[w])].status = "CHAIN_DONE"

\* C6: a worker deletes a selfDestruct configuration when, and only when, the
\* run it just executed for it was successful: a run that ends CHAIN_FAILED,
\* or an attempt aborted at transaction start or at element fetch, leaves the
\* configuration in place.
C6_SelfDestructOnlyAfterSuccess ==
    [][\A w \in Workers :
          (pc[w] = "afterExec" /\ pc'[w] = "recv" /\ chain[w].SelfDestruct) =>
              LET c == chain[w].ChainExecutionConfigID
              IN IF Successful(w)
                 THEN ~config'[c].exists
                 ELSE config'[c].exists = config[c].exists]_vars

(* ---------------- cancellation ----------------------------------------- *)
\* C7: every dispatch entry a worker has received is still executed to a
\* terminal outcome when the cancellation signal fires afterwards, also when
\* the worker is in the admission-retry wait at that moment: no worker
\* returns holding an entry whose chain was not run.
C7_NoReceivedEntryDropped ==
    \A w \in Workers : pc[w] = "exited" => chain[w] = NoChain


\* the run of worker w has reached a terminal outcome: CHAIN_DONE with
\* commit, or CHAIN_FAILED with rollback
TerminalOutcome(w) ==
    /\ pc[w] = "afterExec"
    /\ statusLog[w] # <<>>
    /\ LET last == statusLog[w][Len(statusLog[w])].status
       IN \/ last = "CHAIN_DONE" /\ tx[w] = "committed"
          \/ last = "CHAIN_FAILED" /\ tx[w] = "rolledback"

\* C7 (amended): a run whose header is inserted is executed to a terminal
\* outcome also when the cancellation signal has fired: cancellation is not
\* observed inside executeChain.
C7_InsertedRunsFinish ==
    \A w \in Workers : (runStatusID[w] # 0 /\ ctxDone) ~> TerminalOutcome(w)

\* C7's case: the cancellation signal has fired, a worker has returned from
\* the admission wait holding its entry, and the run that worker was waiting
\* behind has reached its outcome
C7_Witness ==
    \E w \in Workers :
        /\ ctxDone
        /\ TerminalOutcome(w)
        /\ \E v \in Workers : pc[v] = "exited" /\ chain[v] # NoChain

(* ---------------- the admission gate ----------------------------------- *)
InRetryLoop(w) == pc[w] \in {"gate", "gateWait"}

LiveCount(w) == Cardinality(RunningJobs(chain[w].ChainExecutionConfigID))

LoopDone == smooth.i = smooth.n

\* C9: for every fetched count above workersNumber * refetchTimeout the
\* delays of the cycle add up to at least refetchTimeout seconds.
C9_DelaysCoverInterval ==
    (LoopDone /\ smooth.n > workersNumber * refetchTimeout) =>
        smooth.slept >= refetchTimeout * 1000

\* C9 (amended): the delays add up to at most refetchTimeout seconds and to
\* more than refetchTimeout seconds less one millisecond per entry.
C9_DelaysWithinOneMsPerEntry ==
    (LoopDone /\ smooth.n > workersNumber * refetchTimeout) =>
        /\ smooth.slept <= refetchTimeout * 1000
        /\ smooth.slept > refetchTimeout * 1000 - smooth.n

\* C9's case: a cycle above the threshold has pushed all its entries and the
\* delays fell short of the interval
C9_Witness ==
    /\ LoopDone
    /\ smooth.n > workersNumber * refetchTimeout
    /\ smooth.slept < refetchTimeout * 1000

(* ---------------- Run's outcome ---------------------------------------- *)
\* C11: once the cancellation signal fires, Run eventually returns (the
\* claim names the outcome it returns then: ContextCancelled), also when the
\* poller is pushing the entries of a cycle and workers have exited from
\* their admission-retry wait.
C11_RunReturnsAfterCancel ==
    ctxDone ~> (runResult # "none")

\* nothing of the scheduling has begun: no worker runs, no query was issued,
\* no entry was pushed, no run header was inserted
NothingBegun ==
    /\ \A w \in Workers : pc[w] = "idle" /\ chain[w] = NoChain /\ runStatusID[w] = 0
    /\ cycles = 0
    /\ headChains = <<>>
    /\ nextRunStatusID = 1
    /\ \A c \in ConfigIDs : config[c].exists

\* C12: Run starts no worker, issues no query and pushes no entry before
\* TryLockClientName has returned true; while the lock is not acquired it
\* retries after each poll interval, and if cancellation fires during that
\* wait it returns the cancelled outcome without any chain having been
\* dispatched or executed.
C12_NothingBeforeLeaderLock ==
    /\ [](runPc \in {"lock", "lockWait"} => NothingBegun)
    /\ [][/\ (runPc = "lock" /\ runPc' # runPc) => runPc' \in {"lockWait", "rebootQuery"}
          /\ (runPc = "lockWait" /\ runPc' # runPc) =>
                 \/ runPc' = "lock" /\ runResult' = "none"
                 \/ /\ ctxDone
                    /\ runPc' = "returned"
                    /\ runResult' = "ContextCancelled"
                    /\ NothingBegun'
          /\ (NothingBegun /\ ~NothingBegun') => (runPc = "lock" /\ runPc' = "rebootQuery")]_vars

\* C12's case: cancellation fired during the wait for the lock and Run has
\* returned the cancelled outcome
C12_Witness ==
    /\ runResult = "ContextCancelled"
    /\ NothingBegun

(* ---------------- element statuses -------------------------------------- *)
\* executeChain is past its decision about element k of the worker's run
Decided(w, k) ==
    /\ k \in DOMAIN retCodes[w]
    /\ (k = Len(retCodes[w]) => pc[w] # "decide")

\* C13: after each element is dispatched its own terminal status is recorded
\* as DONE when its result code is 0 and as FAILED when it is non-zero, also
\* for an ignored failure; CHAIN_DONE and CHAIN_FAILED are not used as the
\* status of an individual element.
C13_ElementStatusDoneOrFailed ==
    \A w \in Workers :
        /\ \A k \in 1 .. MaxElems :
              Decided(w, k) =>
                  \E i \in DOMAIN statusLog[w] :
                      statusLog[w][i] =
                          Status(k, IF retCodes[w][k] = 0 THEN "DONE" ELSE "FAILED")
        /\ \A i \in DOMAIN statusLog[w] :
              (statusLog[w][i].pos # 0 /\ statusLog[w][i].status \in Terminal) =>
                  \* the chain's CHAIN_FAILED mark is written with the failing element
                  /\ statusLog[w][i].status = "CHAIN_FAILED"
                  /\ UnignoredFailure(w, statusLog[w][i].pos)

(* ---------------- the code executeChainElement returns ------------------ *)
\* the element reached its task backend, which yielded (resultCode, err)
Yielded(t) == t.paramOk /\ ~t.noShell

\* C14: for every combination (resultCode, error|none) a task backend can
\* yield, the code executeChainElement returns is 0 exactly when resultCode
\* is 0 and there is no error: an error paired with code 0 becomes -1, and a
\* non-zero resultCode stays non-zero whether or not an error accompanies it.
C14_ReturnCodeNormalised ==
    \A w \in Workers : \A k \in DOMAIN retCodes[w] :
        LET t == tasks[w][k]
            code == retCodes[w][k]
        IN Yielded(t) =>
              /\ (code = 0) <=> (t.resultCode = 0 /\ ~t.err)
              /\ (t.resultCode = 0 /\ t.err) => code = -1
              /\ t.resultCode # 0 => code # 0

(* ---------------- aborted attempts -------------------------------------- *)
\* nothing is recorded for the worker's current attempt
NothingRecorded(w) ==
    /\ runStatusID[w] = 0
    /\ statusLog[w] = <<>>
    /\ execLog[w] = <<>>
    /\ dispatched[w] = <<>>
    /\ retCodes[w] = <<>>

\* C15: a run attempt that aborts before the header insert persists nothing:
\* when starting the transaction fails, or when fetching the elements fails
\* (after which the transaction is rolled back), no ChainRun header and no
\* status record is written for that attempt and no element is executed.
C15_AbortedAttemptPersistsNothing ==
    /\ [](\A w \in Workers :
            /\ pc[w] \in {"startTx", "fetch", "insert"} => NothingRecorded(w)
            /\ runStatusID[w] # 0 => tx[w] # "none"
            /\ (runStatusID[w] # 0 /\ tx[w] = "rolledback") => statusLog[w] # <<>>)
    /\ [][\A w \in Workers :
            (pc[w] \in {"startTx", "fetch"} /\ pc'[w] = "afterExec") =>
                /\ NothingRecorded(w)'
                /\ nextRunStatusID' = nextRunStatusID
                /\ tx'[w] = IF pc[w] = "fetch" THEN "rolledback" ELSE "none"]_vars

\* C15's case: an attempt was aborted at the element fetch and executeChain
\* has returned
C15_Witness ==
    \E w \in Workers :
        /\ pc[w] = "afterExec"
        /\ runStatusID[w] = 0
        /\ tx[w] = "rolledback"

(* ---------------- parameter resolution ---------------------------------- *)
\* GetChainParamValues failed for element k of the worker's run
ResolutionFailed(w, k) == k \in DOMAIN tasks[w] /\ ~tasks[w][k].paramOk

HasStatus(w, k, label) ==
    \E i \in DOMAIN statusLog[w] : statusLog[w][i] = Status(k, label)

\* element k, whose resolution failed, is a failure with code -1 that never
\* reached a task backend and is handled by the fail/ignore policy
FailedResolutionHandled(w, k) ==
    /\ retCodes[w][k] = -1
    /\ \A i \in DOMAIN dispatched[w] : dispatched[w][i] # k
    /\ k \notin Positions(execLog[w])
    /\ Decided(w, k) =>
          IF ChainElements[w][k].IgnoreError
          THEN /\ ~HasStatus(w, k, "CHAIN_FAILED")
               /\ (k < Len(ChainElements[w]) => idx[w] > k)
               /\ NoUnignoredFailure(w) => (pc[w] # "rollback" /\ tx[w] # "rolledback")
          ELSE /\ statusLog[w][Len(statusLog[w])] = Status(k, "CHAIN_FAILED")
               /\ Len(retCodes[w]) = k
               /\ pc[w] \in {"rollback", "afterExec"}
               /\ (pc[w] = "afterExec" => tx[w] = "rolledback")

\* C16: when resolving an element's parameter bindings fails, the element is
\* an immediate failure with result code -1 whose task backend is never
\* invoked, subject to the same policy as any failed element; the resolution
\* is attempted before the element's STARTED status is recorded.
C16_ResolvedBeforeStarted ==
    \A w \in Workers : \A k \in 1 .. MaxElems :
        /\ ResolutionFailed(w, k) => FailedResolutionHandled(w, k)
        /\ HasStatus(w, k, "STARTED") => k \in DOMAIN tasks[w]

\* C16 (amended): the same, with the order the code has: the element's
\* STARTED status is recorded before its resolution is attempted, so an
\* element whose resolution fails has a STARTED record.
C16_StartedBeforeResolved ==
    \A w \in Workers : \A k \in 1 .. MaxElems :
        /\ ResolutionFailed(w, k) => FailedResolutionHandled(w, k)
        /\ k \in DOMAIN tasks[w] => HasStatus(w, k, "STARTED")

\* C16's case: the resolution of element 1 of two failed without ignoreError
\* and executeChain has returned
C16_Witness ==
    \E w \in Workers :
        /\ ResolutionFailed(w, 1)
        /\ Len(ChainElements[w]) = 2
        /\ ~ChainElements[w][1].IgnoreError
        /\ pc[w] = "afterExec"

(* ---------------- the transaction of a run ------------------------------ *)
\* every element of the worker's chain completed without an unignored failure
AllCompleted(w) ==
    /\ runStatusID[w] # 0
    /\ Len(retCodes[w]) = Len(ChainElements[w])
    /\ NoUnignoredFailure(w)

\* executeChain is not running for worker w
OutsideExecuteChain(w) ==
    pc[w] \in {"idle", "recv", "gate", "gateWait", "afterExec", "exited"}

\* C17: every transaction executeChain opens is ended exactly once before
\* executeChain returns, by a commit or by a rollback and never both; it is
\* committed only when every element completed without an unignored failure
\* (an empty chain commits immediately as CHAIN_DONE) and rolled back on
\* every other exit path, so a worker never takes its next entry while
\* holding an open transaction.
C17_TransactionEndedOnce ==
    /\ [](\A w \in Workers :
            /\ OutsideExecuteChain(w) => tx[w] # "open"
            /\ pc[w] \in {"recv", "gate", "gateWait"} => tx[w] = "none"
            /\ (pc[w] = "afterExec" /\ runStatusID[w] # 0) =>
                   tx[w] = IF AllCompleted(w) THEN "committed" ELSE "rolledback"
            /\ (pc[w] = "afterExec" /\ runStatusID[w] # 0 /\ ChainElements[w] = <<>>) =>
                   /\ tx[w] = "committed"
                   /\ statusLog[w] = <<Status(0, "CHAIN_DONE")>>)
    /\ [][\A w \in Workers :
            tx'[w] # tx[w] =>
                \/ tx[w] = "none" /\ tx'[w] = "open" /\ pc[w] = "startTx"
                \/ tx[w] = "open" /\ tx'[w] = "committed" /\ AllCompleted(w)
                \/ tx[w] = "open" /\ tx'[w] = "rolledback" /\ ~AllCompleted(w)
                \/ tx[w] # "open" /\ tx'[w] = "none" /\ pc[w] = "afterExec"]_vars

\* C17's case: a run failed on an element, its transaction was rolled back
\* and executeChain has returned
C17_Witness ==
    \E w \in Workers :
        /\ pc[w] = "afterExec"
        /\ runStatusID[w] # 0
        /\ retCodes[w] # <<>>
        /\ tx[w] = "rolledback"

(* ---------------- a failed configuration query -------------------------- *)
\* C18: when the configuration query of a poll cycle fails, that cycle pushes
\* no entry and is not retried within the cycle, Run does not terminate
\* because of it, and the next cycle issues the query again after the poll
\* interval.
C18_QueryFailureSkipsCycle ==
    /\ [](selectErr => (headChains = <<>> /\ runPc \notin {"rebootPush", "cronPush"}))
    /\ [][/\ (runPc \in {"rebootQuery", "cronQuery"} /\ runPc' # runPc /\ selectErr') =>
                 /\ runPc' = AfterCycle(runPc)
                 /\ runResult' = "none"
                 /\ headChains' = <<>>
                 /\ workerVars' = workerVars
          /\ (selectErr /\ runPc = "wait" /\ runPc' # runPc) =>
                 \/ runPc' = "cronQuery" /\ runResult' = "none"
                 \/ runPc' = "returned" /\ runResult' = "ConnectionDroppped"
                 \/ runPc' = "returned" /\ runResult' = "ContextCancelled" /\ ctxDone]_vars

\* C18's case: the query of the first cron cycle failed, the poll interval
\* elapsed and the next cycle is about to issue the query again
C18_Witness ==
    /\ selectErr
    /\ runPc = "cronQuery"
    /\ cycles = 2
    /\ runResult = "none"

(* ---------------- the outcomes of Run ----------------------------------- *)
\* C19: Run returns only one of two outcomes, connection dropped or
\* cancelled: if the liveness probe fails when a poll-interval wait elapses,
\* Run returns ConnectionDroppped and starts no further cycle; if the probe
\* succeeds, Run starts the next cycle; no chain failure, query failure or
\* admission denial makes Run return.
C19_RunOutcomes ==
    /\ [](/\ runResult \in {"none", "ConnectionDroppped", "ContextCancelled"}
          /\ (runResult # "none") <=> (runPc = "returned"))
    /\ [][/\ runResult' # runResult =>
                 /\ runResult = "none"
                 /\ runPc \in {"wait", "lockWait"}
                 /\ workerVars' = workerVars
                 /\ storeVars' = storeVars
                 /\ runResult' = "ContextCancelled" => ctxDone
                 /\ runResult' = "ConnectionDroppped" => runPc = "wait"
          /\ runPc = "returned" =>
                 /\ runPc' = "returned"
                 /\ cycles' = cycles
                 /\ headChains' = headChains
                 /\ selectErr' = selectErr
          /\ (runPc = "wait" /\ runPc' = "cronQuery") =>
                 /\ runResult' = "none"
                 /\ cycles' = cycles + 1]_vars

\* C19's case: the probe failed after a cycle in which a chain had failed,
\* and Run has returned ConnectionDroppped
C19_Witness ==
    /\ runResult = "ConnectionDroppped"
    /\ ~ctxDone
    /\ \E w \in Workers : HasStatus(w, 1, "CHAIN_FAILED")

(* ---------------- the connection pool ----------------------------------- *)
\* C20: with the connection limit workersNumber + 1 and two pools of
\* workersNumber workers, no reachable state has every connection held by
\* open transactions whose workers are all waiting for another connection.
C20_NoConnectionDeadlock ==
    ~ /\ Cardinality({u \in PoolWorkers : HoldsTx(u)}) = MaxOpenConns
      /\ \A u \in PoolWorkers : HoldsTx(u) => pool.at[u] = "want"

=============================================================================
